---- MODULE Spec2Model ----
(***************************************************************************)
(* Geo-Slash: the session state kept by MetaPrototype (GameConfig and the  *)
(* queue of pending React state updates) and the engine kept by            *)
(* GeoSlashGame (engine.current, the scene, the physics world, configRef). *)
(*                                                                         *)
(* Time is counted in tenths of a millisecond, so that the hit-stop        *)
(* scaling dt * 0.1 of a whole-millisecond frame gap stays an integer.     *)
(* Camera-shake strength is counted in millionths.                         *)
(* Positions are reduced to the body's height y; the position jitter of a  *)
(* debris shard (+-0.25) and the sample's screen position are left out.    *)
(* An entity id is its creation index within the engine instance.          *)
(***************************************************************************)
EXTENDS Integers, Sequences, FiniteSets, TLC

VARIABLES gameConfig, queue, gameId, mountConfig, configRef, effectPending, engine, moves,
          retired

vars ==
    <<gameConfig, queue, gameId, mountConfig, configRef, effectPending, engine, moves,
      retired>>

(***************************** bounds **************************************)
\* animation frames per engine instance
MaxFrames == 11
\* pending setGameConfig updates
MaxQueue == 2
\* handleRestart calls
MaxRestarts == 1
\* pointer-move events delivered between two frames
MaxMoves == 1
\* animation frames per engine instance of a session played to game over
SessionFrames == 5
\* bodies that cross the cull line in one physics step
MaxFall == 2
\* animation frames of a bomb barrage at 60 frames a second
BarrageFrames == 270
\* animation frames of a run over every target shape and finish
FinishFrames == 10
ClockFrames == 10
HandFrames == 3
LaunchFrames == 10
MaxRay == 2
RayFrames == 3
ShatterFrames == 2
CadenceFrames == 4
SettleFrames == 57
SlashUntil == 10
HitStopFrames == 6
HitStopSlashUntil == 2
GravityFrames == 3
FuseFrames == 2
OutcomeFrames == 3
ScoreFrames == 3
DrainFrames == 24
\* animation frames, and pointer-move events between two frames, of a long stroke
TrailFrames == 3
TrailMoves == 32

(************************ program constants ********************************)
Second == 10000
Millisecond == 10
DtClamp == 1000
HitStopScale == 10
HitStopTime == 500
ShakeBomb == 1200000
ShakeTarget == 100000
ShakeFloor == 10000
SpawnY == -14
CullY == -20
InitialLives == 3
InitialSpawnRate == 800
InitialGravity == -9800
Milli == 1000
MaxScore == 404
MAX_PARTICLES == 1000
TRAIL_CAP == 30
ExplosionCount == 100
BurstCount == 15
PointsBase == 10
PointsGlass == 50
TrailFade == 5

Min(a, b) == IF a < b THEN a ELSE b

Abs(a) == IF a < 0 THEN -a ELSE a

\* Math.sqrt on thousandths: the largest r in lo..hi with r * r <= n
RECURSIVE SqrtBetween(_, _, _)
SqrtBetween(n, lo, hi) ==
    IF lo >= hi THEN lo
    ELSE LET mid == (lo + hi + 1) \div 2
         IN  IF mid * mid <= n THEN SqrtBetween(n, mid, hi) ELSE SqrtBetween(n, lo, mid - 1)

Sqrt(n) == SqrtBetween(n, 0, 46340)

\* the number of particles in a sequence of runs of equal particles
RECURSIVE SumN(_)
SumN(runs) ==
    IF runs = <<>> THEN 0
    ELSE IF Len(runs) = 1 THEN runs[1].n
    ELSE LET mid == Len(runs) \div 2
         IN  SumN(SubSeq(runs, 1, mid)) + SumN(SubSeq(runs, mid + 1, Len(runs)))

(************************ MetaPrototype ************************************)
\* useHandTracking is not among its fields: config.useHandTracking reads undefined (FALSE)
getInitialGameConfig ==
    [isPlaying |-> TRUE, score |-> 0, lives |-> InitialLives, gameOver |-> FALSE,
     spawnRate |-> InitialSpawnRate, useHandTracking |-> FALSE,
     gravity |-> InitialGravity]

\* a score updater without the Math.min
scoreUpdaterUncapped(prev, points) ==
    [prev EXCEPT !.score = @ + (IF points > 20 THEN 3 ELSE 1)]

\* the updater handleScore hands to setGameConfig
scoreUpdater(prev, points) ==
    LET increment == IF points > 20 THEN 3 ELSE 1
        nextScore == Min(MaxScore, prev.score + increment)
    IN  [prev EXCEPT !.score = nextScore]

\* handleBomb's updater ending the game one bomb late
bombUpdaterLate(prev) ==
    LET newLives == prev.lives - 1
    IN  IF newLives < 0
        THEN [prev EXCEPT !.lives = 0, !.gameOver = TRUE, !.isPlaying = FALSE]
        ELSE [prev EXCEPT !.lives = newLives]

\* the updater handleBomb hands to setGameConfig
bombUpdater(prev) ==
    LET newLives == prev.lives - 1
    IN  IF newLives <= 0
        THEN [prev EXCEPT !.lives = 0, !.gameOver = TRUE, !.isPlaying = FALSE]
        ELSE [prev EXCEPT !.lives = newLives]

applyUpdate(prev, u) ==
    IF u.op = "score" THEN scoreUpdater(prev, u.arg) ELSE bombUpdater(prev)

\* React runs the queued updaters in order when it renders
RECURSIVE applyQueue(_, _)
applyQueue(prev, q) ==
    IF q = <<>> THEN prev ELSE applyQueue(applyUpdate(prev, Head(q)), Tail(q))

\* handleScore / handleBomb / handleMiss as the engine holds them: the closures of
\* the render in which GeoSlashGame mounted, reading that render's gameConfig
handleScore(closure, q, points) ==
    IF closure.gameOver THEN q ELSE Append(q, [op |-> "score", arg |-> points])

handleBomb(closure, q) ==
    IF closure.gameOver THEN q ELSE Append(q, [op |-> "bomb", arg |-> 0])

\* a handleMiss that takes a life as handleBomb does
handleMissCostsLife(closure, q) == Append(q, [op |-> "bomb", arg |-> 0])

\* handleMiss: past its guard it only logs
handleMiss(closure, q) == q

(************************ engine: entities *********************************)
\* what has happened to an entity since spawnEntity made it: the kind it was made as,
\* the shatterEntity runs on it, the callbacks invoked for it, whether a tick culled it
NoFate ==
    [kind |-> "NONE", shatters |-> 0, onScore |-> 0, onBomb |-> 0, onMiss |-> 0,
     culled |-> FALSE, sparks |-> 0]

InitEngine ==
    [entities |-> <<>>, scene |-> {}, world |-> {}, particles |-> <<>>,
     particleCount |-> 0, trailNodes |-> <<>>, trailVisible |-> TRUE,
     lastMouse |-> FALSE, spawnTimer |-> 0, hitStopTimer |-> 0,
     shakeStrength |-> 0, cameraAtRest |-> TRUE, stepDelta |-> 0,
     reqId |-> 1, frameRequests |-> {1},
     materials |-> <<>>, materialsMade |-> 0,
     handLandmarker |-> FALSE, videoReady |-> FALSE, handSetup |-> "idle",
     lastVideoTime |-> -1, currentTime |-> 0,
     gravity |-> 0, resources |-> FALSE,
     made |-> 0, frames |-> 0, fate |-> <<>>]

Ids(entities) == {entities[i].id : i \in 1..Len(entities)}

IndexOf(entities, id) == CHOOSE i \in 1..Len(entities) : entities[i].id = id

\* the hex string of the Color a material holds for a theme colour
getHexString(color) == "#" \o color

\* a getMaterial that builds a material on every call
getMaterialUncached(e, color, type) ==
    LET key == <<color, type>>
        mat == e.materialsMade + 1
    IN  [eng |-> [e EXCEPT !.materials = [k \in DOMAIN @ \cup {key} |->
                                              IF k = key THEN mat ELSE @[k]],
                           !.materialsMade = mat],
         mat |-> mat]

\* getMaterial(color, type): engine.materials maps the key to the material built for it
getMaterial(e, color, type) ==
    LET key == <<color, type>>
        mat == e.materialsMade + 1
    IN  IF key \in DOMAIN e.materials
        THEN [eng |-> e, mat |-> e.materials[key]]
        ELSE [eng |-> [e EXCEPT !.materials = [k \in DOMAIN @ \cup {key} |->
                                                   IF k = key THEN mat ELSE @[k]],
                                !.materialsMade = mat],
              mat |-> mat]

\* createBombVisual: body, cap and fuse each take their material from the cache
createBombVisual(e) ==
    LET body == getMaterial(e, "#222222", "BOMB_MATTE")
        cap  == getMaterial(body.eng, "#888888", "BOMB_CAP")
        fuse == getMaterial(cap.eng, "#8B4513", "BOMB_FUSE")
    IN  [eng |-> fuse.eng, mat |-> body.mat]

\* the material of the mesh spawnEntity builds
entityMaterial(e, isDebris, debrisProps, roll) ==
    IF isDebris
    THEN getMaterial(e, debrisProps.color, IF debrisProps.isGlass THEN "GLASS" ELSE "PLASTIC")
    ELSE IF roll.isBomb THEN createBombVisual(e)
    ELSE getMaterial(e, roll.color, IF roll.isGlass THEN "GLASS" ELSE "PLASTIC")

\* a launch that leaves the 2 out of vy = sqrt(2 g h)
launchVelocityNoFactor(g, x, targetX, targetY) ==
    LET vy == Sqrt(g * (targetY - SpawnY * Milli))
        t  == (vy * Milli) \div g
        vx == ((targetX - x) * Milli) \div t
    IN  [x |-> x, targetX |-> targetX, targetY |-> targetY, g |-> g, vx |-> vx, vy |-> vy]

\* the Initial Physics State of a target or bomb, in thousandths (of a unit, of a unit
\* per second, of a second): the velocity that peaks at (targetX, targetY)
launchVelocity(g, x, targetX, targetY) ==
    LET vy == Sqrt(2 * g * (targetY - SpawnY * Milli))
        t  == (vy * Milli) \div g
        vx == ((targetX - x) * Milli) \div t
    IN  [x |-> x, targetX |-> targetX, targetY |-> targetY, g |-> g, vx |-> vx, vy |-> vy]

\* debris takes its velocity from the entity it broke off
NoLaunch == [x |-> 0, targetX |-> 0, targetY |-> 0, g |-> 0, vx |-> 0, vy |-> 0]

\* spawnEntity without its world.addBody
spawnEntityNoBody(e, cfg, isDebris, debrisProps, roll) ==
    LET id == e.made + 1
        ent == [id |-> id, type |-> IF isDebris THEN "DEBRIS"
                                    ELSE IF roll.isBomb THEN "BOMB" ELSE "TARGET",
                active |-> TRUE, glass |-> FALSE,
                shape |-> IF isDebris THEN "shard" ELSE IF roll.isBomb THEN "bomb" ELSE roll.shape,
                y |-> IF isDebris THEN debrisProps.pos ELSE SpawnY, mesh |-> 0,
                color |-> "#ffffff", material |-> 0, launch |-> NoLaunch]
    IN  [e EXCEPT !.entities = Append(@, ent),
                  !.scene = @ \cup {id},
                  !.made = id,
                  !.fate = Append(@, [NoFate EXCEPT !.kind = ent.type])]

\* spawnEntity; roll holds the outcomes of its Math.random() draws
spawnEntity(e, cfg, isDebris, debrisProps, roll) ==
    LET id == e.made + 1
        m  == entityMaterial(e, isDebris, debrisProps, roll)
        ent == IF isDebris
               THEN [id |-> id, type |-> "DEBRIS", active |-> TRUE,
                     glass |-> debrisProps.isGlass, shape |-> "shard",
                     y |-> debrisProps.pos, mesh |-> 0,
                     color |-> debrisProps.color, material |-> m.mat,
                     launch |-> NoLaunch]
               ELSE [id |-> id, type |-> IF roll.isBomb THEN "BOMB" ELSE "TARGET",
                     active |-> TRUE, glass |-> (~roll.isBomb /\ roll.isGlass),
                     shape |-> IF roll.isBomb THEN "bomb" ELSE roll.shape,
                     y |-> SpawnY, mesh |-> 0,
                     color |-> IF roll.isBomb THEN "#222222" ELSE roll.color,
                     material |-> m.mat,
                     launch |-> launchVelocity(Abs(cfg.gravity), roll.x, roll.targetX,
                                               roll.targetY)]
    IN  [m.eng EXCEPT !.entities = Append(@, ent),
                  !.scene = @ \cup {id},
                  !.world = @ \cup {id},
                  !.made = id,
                  !.fate = Append(@, [NoFate EXCEPT !.kind = ent.type])]

NoProps == [pos |-> 0, isGlass |-> FALSE, color |-> "#ffffff"]

pushParticles(e, n, life, maxLife) ==
    [e EXCEPT !.particles = Append(@, [n |-> n, life |-> life, maxLife |-> maxLife])]

\* an explosion the size of a target's burst
spawnExplosionParticlesBurst(e, life) == pushParticles(e, BurstCount, life, life)

spawnExplosionParticles(e, life) == pushParticles(e, ExplosionCount, life, life)

spawnParticles(e, maxLife) == pushParticles(e, BurstCount, Second, maxLife)

RECURSIVE spawnShards(_, _, _, _)
spawnShards(e, cfg, count, props) ==
    IF count = 0 THEN e
    ELSE spawnShards(spawnEntity(e, cfg, TRUE, props,
                                 [isBomb |-> FALSE, isGlass |-> FALSE, color |-> props.color]),
                     cfg, count - 1, props)

\* the properties shatterEntity reads off the struck mesh's material for its shards: a
\* glass material is colourless, a plastic one holds the theme colour
shardProps(ent) ==
    [pos |-> ent.y, isGlass |-> ent.glass,
     color |-> getHexString(IF ent.glass THEN "ffffff" ELSE ent.color)]

\* shatterEntity without its entity.active = false
shatterEntityStaysActive(e, cfg, id, roll) ==
    LET ent == e.entities[IndexOf(e.entities, id)]
        e1 == [e EXCEPT !.scene = @ \ {id},
                        !.world = @ \ {id},
                        !.fate[id].shatters = @ + 1]
    IN  IF ent.type = "BOMB"
        THEN spawnExplosionParticles(e1, roll.explosionLife)
        ELSE spawnParticles(
                 spawnShards(e1, cfg, roll.shardCount, shardProps(ent)),
                 roll.burstMaxLife)

\* shatterEntity; roll holds shardCount and the particles' drawn lifetimes
shatterEntity(e, cfg, id, roll) ==
    LET i  == IndexOf(e.entities, id)
        ent == e.entities[i]
        e1 == [e EXCEPT !.entities[i].active = FALSE,
                        !.scene = @ \ {id},
                        !.world = @ \ {id},
                        !.fate[id].shatters = @ + 1]
    IN  IF ent.type = "BOMB"
        THEN spawnExplosionParticles(e1, roll.explosionLife)
        ELSE spawnParticles(
                 spawnShards(e1, cfg, roll.shardCount, shardProps(ent)),
                 roll.burstMaxLife)

(************************ engine: slash resolver ***************************)
NoHit == 0

\* a raycast handed every entity of the registry
TargetsAnyEntity(entities) == Ids(entities)

\* the meshes processSlashInput hands to the raycaster, by owning entity
Targets(entities) ==
    {entities[i].id : i \in {j \in 1..Len(entities) :
                               entities[j].active /\ entities[j].type # "DEBRIS"}}

\* the entities a ray may cross, nearest first: up to k of the registry
RECURSIVE Rays(_, _)
Rays(entities, k) ==
    IF k = 0 THEN {<<>>}
    ELSE LET shorter == Rays(entities, k - 1)
         IN  shorter \cup
             UNION {{Append(ray, id) :
                        id \in Ids(entities) \ {ray[i] : i \in 1..Len(ray)}} :
                    ray \in {r \in shorter : Len(r) = k - 1}}

\* raycaster.intersectObjects(targets, true) and hits[0]: the owner of the nearest
\* target mesh on the ray, or NoHit
RECURSIVE intersectObjects(_, _)
intersectObjects(targets, ray) ==
    IF ray = <<>> THEN NoHit
    ELSE IF Head(ray) \in targets THEN Head(ray)
    ELSE intersectObjects(targets, Tail(ray))

\* what the raycast of a sample may return
RayHits(entities, k) ==
    {intersectObjects(Targets(entities), ray) : ray \in Rays(entities, k)}

\* trailNodes.unshift(...) without the pop
addTrailNodeUncapped(nodes) == <<Second>> \o nodes

\* trailNodes.unshift(...) and the pop past the cap
addTrailNode(nodes) ==
    LET grown == <<Second>> \o nodes
    IN  IF Len(grown) > TRAIL_CAP THEN SubSeq(grown, 1, Len(grown) - 1) ELSE grown

\* points without the glass bonus
hitPointsFlat(ent) == PointsBase

\* the glass bonus: the struck mesh's material is a MeshPhysicalMaterial
hitPoints(ent) == IF ent.glass THEN PointsGlass ELSE PointsBase

\* a hit dispatch that takes every entity for a target
hitCallbackAlwaysScore(ent) == "onScore"

\* which session callback a hit on ent invokes
hitCallback(ent) == IF ent.type = "BOMB" THEN "onBomb" ELSE "onScore"

\* the HIT branch of processSlashInput, for the entity the nearest intersection belongs to
hitEntity(e, cfg, closure, q, id, roll) ==
    LET ent == e.entities[IndexOf(e.entities, id)]
    IN  IF ~ent.active THEN [eng |-> e, queue |-> q]
        ELSE IF hitCallback(ent) = "onBomb"
        THEN [eng |-> shatterEntity([e EXCEPT !.fate[id].onBomb = @ + 1,
                                              !.shakeStrength = ShakeBomb], cfg, id, roll),
              queue |-> handleBomb(closure, q)]
        ELSE [eng |-> shatterEntity([e EXCEPT !.fate[id].onScore = @ + 1,
                                              !.hitStopTimer = HitStopTime,
                                              !.shakeStrength = ShakeTarget], cfg, id, roll),
              queue |-> handleScore(closure, q, hitPoints(ent))]

\* a resolver that hit-tests its first sample too
processSlashInputNoBaseline(e, cfg, closure, q, hit, roll) ==
    IF cfg.gameOver THEN [eng |-> e, queue |-> q]
    ELSE LET e1 == [e EXCEPT !.trailNodes = addTrailNode(@), !.lastMouse = TRUE]
         IN  IF hit # NoHit
             THEN hitEntity(e1, cfg, closure, q, hit, roll)
             ELSE [eng |-> e1, queue |-> q]

\* processSlashInput(nx, ny); hit is the entity owning hits[0].object, or NoHit
processSlashInput(e, cfg, closure, q, hit, roll) ==
    IF cfg.gameOver THEN [eng |-> e, queue |-> q]
    ELSE LET e1 == [e EXCEPT !.trailNodes = addTrailNode(@)]
         IN  IF ~e1.lastMouse
             THEN [eng |-> [e1 EXCEPT !.lastMouse = TRUE], queue |-> q]
             ELSE IF hit # NoHit
                  THEN hitEntity(e1, cfg, closure, q, hit, roll)
                  ELSE [eng |-> e1, queue |-> q]

\* a listener that leaves its sample for the next tick
handlePointerMoveDeferred(e, cfg, closure, q, hit, roll) == [eng |-> e, queue |-> q]

\* a listener that resolves pointer samples in every input mode
handlePointerMoveAnyMode(e, cfg, closure, q, hit, roll) ==
    IF cfg.gameOver THEN [eng |-> e, queue |-> q]
    ELSE processSlashInput(e, cfg, closure, q, hit, roll)

\* handlePointerMove: the mousemove / touchmove listener
handlePointerMove(e, cfg, closure, q, hit, roll) ==
    IF cfg.useHandTracking THEN [eng |-> e, queue |-> q]
    ELSE IF cfg.gameOver THEN [eng |-> e, queue |-> q]
    ELSE processSlashInput(e, cfg, closure, q, hit, roll)

\* handlePointerLeave: the mouseleave / touchend listener
handlePointerLeave(e) == [e EXCEPT !.trailNodes = <<>>, !.lastMouse = FALSE]

(************************ engine: frame tick *******************************)
\* world.step(1/60, dt, 3): every body still in the world moves, by rise or, for the
\* bodies in fallen, to below the cull line; stepDelta is the delta it was handed
worldStep(e, dt, fallen, rise) ==
    LET moved(ent) == IF ent.id \in fallen THEN CullY - 1 ELSE ent.y + rise
    IN  [e EXCEPT !.stepDelta = dt,
                  !.entities =
            [i \in 1..Len(e.entities) |->
                IF e.entities[i].id \in e.world
                THEN [e.entities[i] EXCEPT !.y = moved(e.entities[i])]
                ELSE e.entities[i]]]

\* a shake that jolts the camera and never decays
cameraShakeUndamped(e) ==
    IF e.shakeStrength > 0 THEN [e EXCEPT !.cameraAtRest = FALSE] ELSE e

\* the Camera Shake of tick
cameraShake(e) ==
    IF e.shakeStrength > 0
    THEN LET s == (e.shakeStrength * 9) \div 10
         IN  IF s < ShakeFloor
             THEN [e EXCEPT !.shakeStrength = 0, !.cameraAtRest = TRUE]
             ELSE [e EXCEPT !.shakeStrength = s, !.cameraAtRest = FALSE]
    ELSE e

\* the spawner without its isPlaying / gameOver condition
spawnerUnguarded(e, cfg, dt, roll) ==
    IF e.spawnTimer + dt > cfg.spawnRate * Millisecond
    THEN [spawnEntity(e, cfg, FALSE, NoProps, roll) EXCEPT !.spawnTimer = 0]
    ELSE [e EXCEPT !.spawnTimer = @ + dt]

\* a spawner that keeps counting after a spawn
spawnerKeepsTimer(e, cfg, dt, roll) ==
    IF cfg.isPlaying /\ ~cfg.gameOver
    THEN IF e.spawnTimer + dt > cfg.spawnRate * Millisecond
         THEN [spawnEntity(e, cfg, FALSE, NoProps, roll) EXCEPT !.spawnTimer = @ + dt]
         ELSE [e EXCEPT !.spawnTimer = @ + dt]
    ELSE e

\* the spawner of tick: spawnTimer += dt * 1000 and the spawn it triggers
spawner(e, cfg, dt, roll) ==
    IF cfg.isPlaying /\ ~cfg.gameOver
    THEN IF e.spawnTimer + dt > cfg.spawnRate * Millisecond
         THEN [spawnEntity(e, cfg, FALSE, NoProps, roll) EXCEPT !.spawnTimer = 0]
         ELSE [e EXCEPT !.spawnTimer = @ + dt]
    ELSE e

\* a splice that removes nothing
RemoveNone(s, i) == s

\* entities.splice(i, 1)
RemoveAt(s, i) == SubSeq(s, 1, i - 1) \o SubSeq(s, i + 1, Len(s))

\* a loop that culls without the two copies
syncVisualsNone(ent) == ent

\* Sync Visuals: the mesh takes the body's position and quaternion
syncVisuals(ent) == [ent EXCEPT !.mesh = ent.y]

\* the cleanup loop calling onMiss for whatever it culls while the game is on
RECURSIVE syncAndCullAnyKind(_, _, _, _, _)
syncAndCullAnyKind(e, cfg, closure, q, i) ==
    IF i = 0 THEN [eng |-> e, queue |-> q]
    ELSE LET ent == e.entities[i]
                 e0 == [e EXCEPT !.entities[i] = syncVisuals(ent)]
         IN  IF ent.y < CullY
             THEN LET miss == ~cfg.gameOver /\ cfg.isPlaying
                      e1 == [e0 EXCEPT !.scene = @ \ {ent.id},
                                      !.world = @ \ {ent.id},
                                      !.entities = SubSeq(@, 1, i - 1) \o SubSeq(@, i + 1, Len(@)),
                                      !.fate[ent.id].culled = TRUE,
                                      !.fate[ent.id].sparks = 0,
                                      !.fate[ent.id].onMiss = IF miss THEN @ + 1 ELSE @]
                  IN  syncAndCullAnyKind(e1, cfg, closure, q, i - 1)
             ELSE syncAndCullAnyKind(e0, cfg, closure, q, i - 1)

\* the sync-and-cleanup loop, from the last entity down to the first
RECURSIVE syncAndCull(_, _, _, _, _)
syncAndCull(e, cfg, closure, q, i) ==
    IF i = 0 THEN [eng |-> e, queue |-> q]
    ELSE LET ent == e.entities[i]
                 e0 == [e EXCEPT !.entities[i] = syncVisuals(ent)]
         IN  IF ent.y < CullY
             THEN LET miss == ent.type = "TARGET" /\ ent.active
                              /\ ~cfg.gameOver /\ cfg.isPlaying
                      e1 == [e0 EXCEPT !.scene = @ \ {ent.id},
                                      !.world = @ \ {ent.id},
                                      !.entities = RemoveAt(@, i),
                                      !.fate[ent.id].culled = TRUE,
                                      !.fate[ent.id].sparks = 0,
                                      !.fate[ent.id].onMiss = IF miss THEN @ + 1 ELSE @]
                  IN  syncAndCull(e1, cfg, closure,
                                  IF miss THEN handleMiss(closure, q) ELSE q, i - 1)
             ELSE syncAndCull(e0, cfg, closure, q, i - 1)

\* Math.floor(Math.random() * 3) and the spawnCount the fuse makes of it; the bomb at
\* registry index i takes the draw at i, the draws repeating when the registry is longer
FuseDraws == 0..2

spawnCount(draw) == 3 + draw

fuseDraw(roll, i) == roll.fuseDraws[((i - 1) % Len(roll.fuseDraws)) + 1]

\* how many sparks the entity of an id got in the last tick (fate[id].sparks)
sparked(e, id, n) == [e EXCEPT !.fate[id].sparks = n]

\* fuse sparks from every bomb in the registry, the shattered ones too
RECURSIVE fuseSparksInactiveToo(_, _, _)
fuseSparksInactiveToo(e, i, roll) ==
    IF i > Len(e.entities) THEN e
    ELSE LET ent == e.entities[i]
             n == spawnCount(fuseDraw(roll, i))
         IN  fuseSparksInactiveToo(
                 IF ent.type = "BOMB"
                 THEN sparked(pushParticles(e, n, roll.fuseLife, roll.fuseLife), ent.id, n)
                 ELSE sparked(e, ent.id, 0),
                 i + 1, roll)

\* the fuse sparks of every active bomb in the registry
RECURSIVE fuseSparks(_, _, _)
fuseSparks(e, i, roll) ==
    IF i > Len(e.entities) THEN e
    ELSE LET ent == e.entities[i]
             n == spawnCount(fuseDraw(roll, i))
         IN  fuseSparks(IF ent.active /\ ent.type = "BOMB"
                        THEN sparked(pushParticles(e, n, roll.fuseLife, roll.fuseLife),
                                     ent.id, n)
                        ELSE sparked(e, ent.id, 0),
                        i + 1, roll)

\* a particle pass that counts an instance before it tests the particle's life
particlePassCountsDead(e, dt) ==
    LET aged == [i \in 1..Len(e.particles) |-> [e.particles[i] EXCEPT !.life = @ - dt]]
        kept == SelectSeq(aged, LAMBDA p : p.life > 0)
    IN  [e EXCEPT !.particles = kept, !.particleCount = SumN(aged)]

\* the particle pass: age, drop the dead, count the instances written
particlePass(e, dt) ==
    LET aged == [i \in 1..Len(e.particles) |-> [e.particles[i] EXCEPT !.life = @ - dt]]
        kept == SelectSeq(aged, LAMBDA p : p.life > 0)
    IN  [e EXCEPT !.particles = kept, !.particleCount = SumN(kept)]

\* a trail pass that ages the nodes and splices none
trailPassKeepsDead(e, dt) ==
    LET aged == [i \in 1..Len(e.trailNodes) |-> e.trailNodes[i] - dt * TrailFade]
    IN  [e EXCEPT !.trailNodes = aged, !.trailVisible = (Len(aged) > 1)]

\* the trail pass: age, drop the dead, show the ribbon when two nodes remain
trailPass(e, dt) ==
    LET aged == [i \in 1..Len(e.trailNodes) |-> e.trailNodes[i] - dt * TrailFade]
        kept == SelectSeq(aged, LAMBDA life : life > 0)
    IN  [e EXCEPT !.trailNodes = kept, !.trailVisible = (Len(kept) > 1)]

\* a frame delta without the Math.min
unclampedDelta(gap) == gap

\* the frame delta of a tick whose timestamp is gap after lastTime
clampedDelta(gap) == Min(gap, DtClamp)

\* a tick that steps the world by the whole delta during hit-stop
scaledDeltaFull(e, gap) == clampedDelta(gap)

scaledDelta(e, gap) ==
    IF e.hitStopTimer > 0 THEN clampedDelta(gap) \div HitStopScale ELSE clampedDelta(gap)

\* what the video gives a tick: whether it has moved on to a new frame since the tick
\* before, whether the landmarker detects a hand in the frame it shows, and what the
\* fingertip's ray hits
NoVideoFrame == [frame |-> FALSE, detected |-> FALSE, hit |-> NoHit]

\* videoRef.current.currentTime as the tick reads it
videoTime(e, hand) == IF hand.frame THEN e.currentTime + 1 ELSE e.currentTime

HandInputs(e, cfg, k) ==
    IF cfg.useHandTracking /\ e.handLandmarker /\ e.videoReady
    THEN {NoVideoFrame, [frame |-> TRUE, detected |-> FALSE, hit |-> NoHit]}
         \cup {[frame |-> f, detected |-> TRUE, hit |-> h] :
                   f \in {g \in BOOLEAN :
                             videoTime(e, [frame |-> g]) # e.lastVideoTime},
                   h \in RayHits(e.entities, k)}
    ELSE {NoVideoFrame}

\* a Hand Tracking Update that runs the detection on every tick
handTrackingUpdateEveryTick(e, cfg, closure, q, hand, sroll) ==
    IF cfg.useHandTracking /\ e.handLandmarker /\ e.videoReady
    THEN LET seen == [e EXCEPT !.currentTime = videoTime(e, hand),
                               !.lastVideoTime = videoTime(e, hand)]
         IN  IF hand.detected
             THEN processSlashInput(seen, cfg, closure, q, hand.hit, sroll)
             ELSE [eng |-> [seen EXCEPT !.lastMouse = FALSE, !.trailNodes = <<>>],
                   queue |-> q]
    ELSE [eng |-> e, queue |-> q]

\* the Hand Tracking Update of tick
handTrackingUpdate(e, cfg, closure, q, hand, sroll) ==
    IF cfg.useHandTracking /\ e.handLandmarker /\ e.videoReady
    THEN IF videoTime(e, hand) # e.lastVideoTime
         THEN LET seen == [e EXCEPT !.currentTime = videoTime(e, hand),
                                    !.lastVideoTime = videoTime(e, hand)]
              IN  IF hand.detected
                  THEN processSlashInput(seen, cfg, closure, q, hand.hit, sroll)
                  ELSE [eng |-> [seen EXCEPT !.lastMouse = FALSE, !.trailNodes = <<>>],
                        queue |-> q]
         ELSE [eng |-> [e EXCEPT !.currentTime = videoTime(e, hand)], queue |-> q]
    ELSE [eng |-> e, queue |-> q]

\* the frame callback has run: its request is no longer pending
frameDone(e) == [e EXCEPT !.frames = @ + 1, !.frameRequests = @ \ {e.reqId}]

\* a tick that ends without asking for the next frame
requestAnimationFrameDropped(e) == e

\* state.reqId = requestAnimationFrame(tick)
requestAnimationFrame(e) ==
    [e EXCEPT !.reqId = @ + 1, !.frameRequests = @ \cup {e.reqId + 1}]

\* tick(time) from its Physics Step on
tickPhases(e, cfg, closure, q, gap, fallen, rise, roll) ==
    LET dt == scaledDelta(e, gap)
        e1 == IF e.hitStopTimer > 0
              THEN [e EXCEPT !.hitStopTimer = @ - clampedDelta(gap)] ELSE e
        e2 == worldStep(e1, dt, fallen, rise)
        e3 == cameraShake(e2)
        e4 == spawner(e3, cfg, dt, roll)
        r5 == syncAndCull(e4, cfg, closure, q, Len(e4.entities))
        e6 == fuseSparks(r5.eng, 1, roll)
        e7 == particlePass(e6, dt)
        e8 == trailPass(e7, dt)
    IN  [eng |-> requestAnimationFrame(frameDone(e8)), queue |-> r5.queue]

\* tick(time): the return on a missing scene, camera, renderer or world, which comes
\* before the requestAnimationFrame at the end of the tick; else the Hand Tracking
\* Update, then the phases
tick(e, cfg, closure, q, gap, fallen, rise, roll, hand, sroll) ==
    IF ~e.resources THEN [eng |-> frameDone(e), queue |-> q]
    ELSE LET r0 == handTrackingUpdate(e, cfg, closure, q, hand, sroll)
         IN  tickPhases(r0.eng, cfg, closure, r0.queue, gap, fallen, rise, roll)

(************************ inputs *******************************************)
\* frame gaps: a 100 ms frame and a 250 ms stall
Gaps == {100 * Millisecond, 250 * Millisecond}

\* two of the theme colours spawnEntity draws a target's colour from
PlasticColors == {"Error", "Success"}

\* the target shapes spawnEntity draws from
Shapes == {"cube", "pyramid", "sphere"}

\* the draws of one tick: the spawn's kind and finish, the fuse emitter's count and life
TickRolls ==
    {[isBomb |-> b, isGlass |-> g, shape |-> "cube", color |-> "Error", x |-> 0, targetX |-> 0,
      targetY |-> 5000, fuseDraws |-> <<0>>, fuseLife |-> 4000] :
        b \in BOOLEAN, g \in BOOLEAN}

\* the draws of one hit: shardCount and the particle lifetimes
SlashRolls == {[shardCount |-> 4, burstMaxLife |-> 5000, explosionLife |-> 5000]}

\* the spawn rates applied from the telemetry panel's JSON: 50 ms, a spawn every frame
CodeRates == {50}

\* Math.floor(Math.random() * 3) and the shardCount shatterEntity makes of it
ShardDraws == 0..2

shardCount(draw) == 4 + draw

\* the draws of one hit with every shard count
ShatterRolls ==
    {[shardCount |-> shardCount(d), burstMaxLife |-> 5000, explosionLife |-> 5000] :
        d \in ShardDraws}

Main ==
    [firstGaps |-> Gaps, gaps |-> Gaps, tickRolls |-> TickRolls, slashRolls |-> SlashRolls, maxRay |-> 1,
     maxFrames |-> MaxFrames, maxMoves |-> MaxMoves, maxFall |-> MaxFall,
     fallKinds |-> {"TARGET", "BOMB", "DEBRIS"}, rise |-> 1]

\* the sets of bodies one physics step may take below the cull line: at most k
\* bodies, of the given kinds
FallSets(e, kinds, k) ==
    LET bodies == {e.entities[i].id : i \in {j \in 1..Len(e.entities) :
                        e.entities[j].id \in e.world /\ e.entities[j].type \in kinds}}
    IN  {S \in SUBSET bodies : Cardinality(S) <= k}

(************************ mount and unmount ********************************)
\* an effect cleanup that leaves the frame request alone
cleanupKeepsRequest(e) == e

\* the effect cleanup of GeoSlashGame: cancelAnimationFrame(engine.current.reqId)
cleanup(e) == [e EXCEPT !.frameRequests = @ \ {e.reqId}]

\* a GeoSlashGame rendered without the key: the instance stays mounted
remountSameInstance(e, oldKey, newKey) == e

\* <GeoSlashGame key={gameId} ...>: a new key unmounts the instance and mounts a fresh one
remount(e, oldKey, newKey) == IF newKey # oldKey THEN InitEngine ELSE e

\* the Physics Setup of the mount effect: world.gravity.set(0, configRef.current.gravity, 0)
\* and engine.current.world = world, the last of scene, camera, renderer and world to
\* be set
createWorld(e, cfg) == [e EXCEPT !.gravity = cfg.gravity, !.resources = TRUE]

\* an effect on [config] that refreshes configRef only
configEffectRefOnly(e, cfg) == e

\* the effect on [config], on the engine: world.gravity.set(0, config.gravity, 0)
configEffect(e, cfg) == [e EXCEPT !.gravity = cfg.gravity]

\* what is left of an unmounted instance: its frame requests still pending, and the
\* ticks it has run since its cleanup
NoInstance == [frameRequests |-> {}, ticks |-> 0]

\* a handleRestart that resets the session fields only
handleRestartKeepsTuning(prev) ==
    [prev EXCEPT !.score = 0, !.lives = InitialLives, !.gameOver = FALSE, !.isPlaying = TRUE]

\* the config handleRestart sets: setGameConfig(getInitialGameConfig())
handleRestart(prev) == getInitialGameConfig

\* the instances with a frame request pending
FrameCallbacks ==
    (IF engine.frameRequests # {} THEN {"mounted"} ELSE {})
        \cup (IF retired.frameRequests # {} THEN {"retired"} ELSE {})

(************************ actions ******************************************)
Init ==
    /\ gameConfig = getInitialGameConfig
    /\ queue = <<>>
    /\ gameId = 0
    /\ mountConfig = getInitialGameConfig
    /\ configRef = getInitialGameConfig
    /\ effectPending = FALSE
    /\ engine = createWorld(InitEngine, getInitialGameConfig)
    /\ moves = 0
    /\ retired = NoInstance

\* one animation frame
Tick(P) ==
    \E inst \in FrameCallbacks :
        IF inst = "mounted"
        THEN \E gap \in (IF engine.frames = 0 THEN P.firstGaps ELSE P.gaps),
                roll \in P.tickRolls,
                fallen \in FallSets(engine, P.fallKinds, P.maxFall),
                hand \in HandInputs(engine, configRef, P.maxRay), sroll \in P.slashRolls :
                /\ engine.frames < P.maxFrames
                /\ LET r == tick(engine, configRef, mountConfig, queue, gap, fallen,
                                 P.rise, roll, hand, sroll)
                   IN  /\ Len(r.queue) <= MaxQueue
                       /\ engine' = r.eng
                       /\ queue' = r.queue
                /\ moves' = 0
                /\ UNCHANGED <<gameConfig, gameId, mountConfig, configRef, effectPending,
                               retired>>
        ELSE /\ retired.ticks < P.maxFrames
             /\ retired' = [retired EXCEPT !.ticks = @ + 1]
             /\ UNCHANGED <<gameConfig, queue, gameId, mountConfig, configRef,
                            effectPending, engine, moves>>

\* one mousemove / touchmove event
PointerMove(P) ==
    \E hit \in RayHits(engine.entities, P.maxRay), roll \in P.slashRolls :
        /\ moves < P.maxMoves
        /\ LET r == handlePointerMove(engine, configRef, mountConfig, queue, hit, roll)
           IN  /\ Len(r.queue) <= MaxQueue
               /\ engine' = r.eng
               /\ queue' = r.queue
        /\ moves' = moves + 1
        /\ UNCHANGED <<gameConfig, gameId, mountConfig, configRef, effectPending, retired>>

\* one mouseleave / touchend event
PointerLeave ==
    /\ engine.lastMouse \/ engine.trailNodes # <<>>
    /\ engine' = handlePointerLeave(engine)
    /\ UNCHANGED <<gameConfig, queue, gameId, mountConfig, configRef, effectPending, moves, retired>>

\* React renders MetaPrototype: the queued updaters run and the result is committed
Render ==
    /\ queue # <<>>
    /\ ~effectPending
    /\ gameConfig' = applyQueue(gameConfig, queue)
    /\ queue' = <<>>
    /\ effectPending' = TRUE
    /\ UNCHANGED <<gameId, mountConfig, configRef, engine, moves, retired>>

\* the post-render effect of GeoSlashGame: configRef.current = config
Effect ==
    /\ effectPending
    /\ configRef' = gameConfig
    /\ engine' = configEffect(engine, gameConfig)
    /\ effectPending' = FALSE
    /\ UNCHANGED <<gameConfig, queue, gameId, mountConfig, moves, retired>>

\* handleConfigChange from a control of the control panel, with no update pending:
\* a click is rendered, and its effects run, before the event returns
ConfigChange(updated) ==
    /\ queue = <<>>
    /\ ~effectPending
    /\ updated # gameConfig
    /\ gameConfig' = updated
    /\ configRef' = updated
    /\ engine' = configEffect(engine, updated)
    /\ UNCHANGED <<queue, gameId, mountConfig, effectPending, moves, retired>>

\* the toggle: onConfigChange({ isPlaying: !config.isPlaying })
TogglePlaying == ConfigChange([gameConfig EXCEPT !.isPlaying = ~gameConfig.isPlaying])

\* the telemetry panel's apply button: handleApplyCode with the JSON text edited in
\* its spawnRate, the other fields as the last render wrote them
ApplyCode == \E v \in CodeRates : ConfigChange([gameConfig EXCEPT !.spawnRate = v])

\* the gravity slider's ends: onConfigChange({ gravity: -v }), v from 1 to 20
SliderGravities == {1, 20}

SetGravity ==
    \E v \in SliderGravities : ConfigChange([gameConfig EXCEPT !.gravity = -v * Milli])

\* handleApplyCode with "useHandTracking": true and the spawn rate in the JSON text; the
\* effect on [config.useHandTracking] starts setupHandTracking
EnableHandTracking ==
    \E v \in CodeRates :
        /\ queue = <<>>
        /\ ~effectPending
        /\ ~gameConfig.useHandTracking
        /\ gameConfig' = [gameConfig EXCEPT !.useHandTracking = TRUE, !.spawnRate = v]
        /\ configRef' = gameConfig'
        /\ engine' = configEffect([engine EXCEPT !.handSetup = "pending"], gameConfig')
        /\ UNCHANGED <<queue, gameId, mountConfig, effectPending, moves, retired>>

\* handleApplyCode with "useHandTracking": false: the video element leaves the page and
\* setupHandTracking stops the stream; a setup still in flight is abandoned (active =
\* false), after the landmarker has loaded or before
DisableHandTracking ==
    \E loaded \in (IF engine.handSetup = "pending" THEN BOOLEAN ELSE {FALSE}) :
        /\ queue = <<>>
        /\ ~effectPending
        /\ gameConfig.useHandTracking
        /\ gameConfig' = [gameConfig EXCEPT !.useHandTracking = FALSE]
        /\ configRef' = gameConfig'
        /\ engine' = configEffect([engine EXCEPT !.handSetup = "idle",
                                                  !.handLandmarker = @ \/ loaded,
                                                  !.videoReady = FALSE,
                                                  !.currentTime = 0], gameConfig')
        /\ UNCHANGED <<queue, gameId, mountConfig, effectPending, moves, retired>>

\* how setupHandTracking ends: the model load throws, getUserMedia throws, or the video
\* element's loadeddata fires
SetupOutcomes == {"modelError", "cameraDenied", "streaming"}

setupHandTracking(e, outcome) ==
    [e EXCEPT !.handSetup = outcome,
              !.handLandmarker = @ \/ outcome # "modelError",
              !.videoReady = (outcome = "streaming")]

SetupHandTracking ==
    \E outcome \in SetupOutcomes :
        /\ engine.handSetup = "pending"
        /\ engine' = setupHandTracking(engine, outcome)
        /\ UNCHANGED <<gameConfig, queue, gameId, mountConfig, configRef, effectPending,
                       moves, retired>>

\* the RESTART button of the game-over overlay: handleRestart, and the remount of
\* GeoSlashGame under its new key
Restart ==
    /\ gameConfig.gameOver
    /\ gameId < MaxRestarts
    /\ gameConfig' = handleRestart(applyQueue(gameConfig, queue))
    /\ queue' = <<>>
    /\ gameId' = gameId + 1
    /\ mountConfig' = gameConfig'
    /\ configRef' = gameConfig'
    /\ effectPending' = FALSE
    /\ engine' = createWorld(remount(engine, gameId, gameId + 1), gameConfig')
    /\ retired' = [frameRequests |-> cleanup(engine).frameRequests, ticks |-> 0]
    /\ moves' = 0

Next ==
    \/ Tick(Main)
    \/ PointerMove(Main)
    \/ PointerLeave
    \/ Render
    \/ Effect
    \/ TogglePlaying

Spec == Init /\ [][Next]_vars

\* a session played to game over and restarted, with the telemetry panel at hand:
\* plastic targets and bombs, 100 ms frames
SessionRolls ==
    {[isBomb |-> b, isGlass |-> FALSE, shape |-> "cube", color |-> "Error", x |-> 0, targetX |-> 0,
      targetY |-> 5000, fuseDraws |-> <<0>>, fuseLife |-> 4000] :
        b \in BOOLEAN}

Session ==
    [firstGaps |-> {100 * Millisecond}, gaps |-> {100 * Millisecond}, tickRolls |-> SessionRolls, slashRolls |-> SlashRolls, maxRay |-> 1,
     maxFrames |-> SessionFrames, maxMoves |-> MaxMoves, maxFall |-> 1,
     fallKinds |-> {"TARGET", "BOMB"}, rise |-> 0]

NextSession ==
    \/ Tick(Session)
    \/ PointerMove(Session)
    \/ Render
    \/ Effect
    \/ ApplyCode
    \/ Restart

SpecSession == Init /\ [][NextSession]_vars

\* a bomb barrage: 60 frames a second, every spawn a bomb, the fuse emitter at its
\* fullest draw (3 + floor(2.99 * ...) = 5 sparks of 0.79 s), nothing slashed, and the
\* bombs still in flight (a bomb thrown from y = -14 to an apex of 2..8 under
\* gravity 9.8 is back at y = -20 after 3.9 s or more)
FrameGap60 == Second \div 60

BarrageRolls ==
    {[isBomb |-> TRUE, isGlass |-> FALSE, shape |-> "cube", color |-> "Error", x |-> 0, targetX |-> 0,
      targetY |-> 5000, fuseDraws |-> <<2>>, fuseLife |-> 7900]}

Barrage ==
    [firstGaps |-> {FrameGap60}, gaps |-> {FrameGap60}, tickRolls |-> BarrageRolls, slashRolls |-> SlashRolls, maxRay |-> 1,
     maxFrames |-> BarrageFrames, maxMoves |-> 0, maxFall |-> 0, fallKinds |-> {},
     rise |-> 0]

NextBarrage == Tick(Barrage)

SpecBarrage == Init /\ [][NextBarrage]_vars

\* every shape and finish of target, and bombs: 100 ms frames, nothing falls
FinishRolls ==
    {[isBomb |-> b, isGlass |-> g, shape |-> s, color |-> c, x |-> 0, targetX |-> 0,
      targetY |-> 5000, fuseDraws |-> <<0>>,
      fuseLife |-> 4000] :
        b \in BOOLEAN, g \in BOOLEAN, s \in Shapes, c \in PlasticColors}

Finish ==
    [firstGaps |-> {100 * Millisecond}, gaps |-> {100 * Millisecond}, tickRolls |-> FinishRolls, slashRolls |-> SlashRolls, maxRay |-> 1,
     maxFrames |-> FinishFrames, maxMoves |-> MaxMoves, maxFall |-> 0, fallKinds |-> {},
     rise |-> 0]

NextFinish ==
    \/ Tick(Finish)
    \/ PointerMove(Finish)
    \/ Render
    \/ Effect

SpecFinish == Init /\ [][NextFinish]_vars

\* the frame clock: the first frame comes 5 s after the page's time origin (lastTime
\* is 0 at mount), later frames after 1/60 s, 100 ms, 250 ms or a 5 s stall
SettleGaps == {100 * Millisecond}

ClockGaps == {FrameGap60, 100 * Millisecond, 250 * Millisecond, 5 * Second}

Clock ==
    [firstGaps |-> {5 * Second}, gaps |-> ClockGaps, tickRolls |-> SessionRolls,
     slashRolls |-> SlashRolls, maxRay |-> 1, maxFrames |-> ClockFrames, maxMoves |-> MaxMoves,
     maxFall |-> 0, fallKinds |-> {}, rise |-> 0]

NextClock ==
    \/ Tick(Clock)
    \/ PointerMove(Clock)

SpecClock == Init /\ [][NextClock]_vars

\* hand tracking switched on from the telemetry panel, with every outcome of its setup:
\* 100 ms frames, a spawn every frame once the spawn rate is applied
Hand ==
    [firstGaps |-> {100 * Millisecond}, gaps |-> {100 * Millisecond},
     tickRolls |-> SessionRolls, slashRolls |-> SlashRolls, maxRay |-> 1, maxFrames |-> HandFrames,
     maxMoves |-> MaxMoves, maxFall |-> 0, fallKinds |-> {}, rise |-> 0]

NextHand ==
    \/ Tick(Hand)
    \/ PointerMove(Hand)
    \/ PointerLeave
    \/ ApplyCode
    \/ EnableHandTracking
    \/ SetupHandTracking
    \/ Render
    \/ Effect

SpecHand == Init /\ [][NextHand]_vars

\* slashes whose ray crosses several entities: 100 ms frames, a spawn every frame once
\* the spawn rate is applied, rays of up to MaxRay crossings
Ray ==
    [firstGaps |-> {100 * Millisecond}, gaps |-> {100 * Millisecond},
     tickRolls |-> SessionRolls, slashRolls |-> SlashRolls, maxRay |-> MaxRay,
     maxFrames |-> RayFrames, maxMoves |-> MaxMoves, maxFall |-> 0, fallKinds |-> {},
     rise |-> 0]

NextRay ==
    \/ Tick(Ray)
    \/ PointerMove(Ray)
    \/ ApplyCode
    \/ Render
    \/ Effect

SpecRay == Init /\ [][NextRay]_vars

\* targets, glass targets and bombs slashed with every shard count: 100 ms frames, a
\* spawn every frame once the spawn rate is applied
Shatter ==
    [firstGaps |-> {100 * Millisecond}, gaps |-> {100 * Millisecond},
     tickRolls |-> TickRolls, slashRolls |-> ShatterRolls, maxRay |-> 1,
     maxFrames |-> ShatterFrames, maxMoves |-> MaxMoves, maxFall |-> 0, fallKinds |-> {},
     rise |-> 0]

NextShatter ==
    \/ Tick(Shatter)
    \/ PointerMove(Shatter)
    \/ ApplyCode
    \/ Render
    \/ Effect

SpecShatter == Init /\ [][NextShatter]_vars

\* the spawner under every config it reads: paused and resumed, the spawn rate at its
\* default and at 50 ms, and bombs slashed until the game is over; 100 ms frames
Cadence ==
    [firstGaps |-> {100 * Millisecond}, gaps |-> {100 * Millisecond},
     tickRolls |-> SessionRolls, slashRolls |-> SlashRolls, maxRay |-> 1,
     maxFrames |-> CadenceFrames, maxMoves |-> MaxMoves, maxFall |-> 0, fallKinds |-> {},
     rise |-> 0]

NextCadence ==
    \/ Tick(Cadence)
    \/ PointerMove(Cadence)
    \/ TogglePlaying
    \/ ApplyCode
    \/ Render
    \/ Effect

SpecCadence == Init /\ [][NextCadence]_vars

\* a game left to settle: targets and bombs at the default spawn rate, slashed during
\* the first SlashUntil frames and then left alone while the frame loop runs on
Settle ==
    [firstGaps |-> {100 * Millisecond}, gaps |-> SettleGaps,
     tickRolls |-> SessionRolls, slashRolls |-> SlashRolls, maxRay |-> 1,
     maxFrames |-> SettleFrames, maxMoves |-> MaxMoves, maxFall |-> 0, fallKinds |-> {},
     rise |-> 0]

\* requestAnimationFrame(tick) at the end of every tick: the frame loop keeps running.
\* This is weak fairness of Tick(P), with ENABLED <<Tick(P)>>_vars written out: a tick
\* can be taken exactly while the run has frames left
FrameLoop(P) ==
    \/ []<><<Tick(P)>>_vars
    \/ []<>(engine.frames >= P.maxFrames)

\* a pointer sample of a player who stops slashing after frame until
Slash(P, until) == engine.frames <= until /\ PointerMove(P)

NextSettle ==
    \/ Tick(Settle)
    \/ Slash(Settle, SlashUntil)
    \/ Render
    \/ Effect

SpecSettle == Init /\ [][NextSettle]_vars /\ FrameLoop(Settle)

\* hit-stop at 60 frames a second: a spawn on the first frame once the 50 ms spawn rate
\* is applied, slashes during the first HitStopSlashUntil frames, 1/60 s frames after the
\* first
HitStop ==
    [firstGaps |-> {100 * Millisecond}, gaps |-> {FrameGap60},
     tickRolls |-> SessionRolls, slashRolls |-> SlashRolls, maxRay |-> 1,
     maxFrames |-> HitStopFrames, maxMoves |-> MaxMoves, maxFall |-> 0, fallKinds |-> {},
     rise |-> 0]

NextHitStop ==
    \/ Tick(HitStop)
    \/ Slash(HitStop, HitStopSlashUntil)
    \/ ApplyCode
    \/ Render
    \/ Effect

SpecHitStop == Init /\ [][NextHitStop]_vars /\ FrameLoop(HitStop)

\* gravity changed from the control panel during a game played to game over and
\* restarted: every spawn a bomb, a spawn every frame once the spawn rate is applied
Gravity ==
    [firstGaps |-> {100 * Millisecond}, gaps |-> {100 * Millisecond},
     tickRolls |-> BarrageRolls, slashRolls |-> SlashRolls, maxRay |-> 1,
     maxFrames |-> GravityFrames, maxMoves |-> MaxMoves, maxFall |-> 0, fallKinds |-> {},
     rise |-> 0]

NextGravity ==
    \/ Tick(Gravity)
    \/ PointerMove(Gravity)
    \/ SetGravity
    \/ ApplyCode
    \/ Render
    \/ Effect
    \/ Restart

SpecGravity == Init /\ [][NextGravity]_vars

\* bombs and targets with every spawnCount of the fuse, a draw for each of two registry
\* places: 100 ms frames, bombs fall below the cull line, one slash
FuseRolls ==
    {[isBomb |-> b, isGlass |-> FALSE, shape |-> "cube", color |-> "Error", x |-> 0,
      targetX |-> 0, targetY |-> 5000, fuseDraws |-> <<d1, d2>>, fuseLife |-> 4000] :
        b \in BOOLEAN, d1 \in FuseDraws, d2 \in FuseDraws}

Fuse ==
    [firstGaps |-> {100 * Millisecond}, gaps |-> {100 * Millisecond},
     tickRolls |-> FuseRolls, slashRolls |-> SlashRolls, maxRay |-> 1,
     maxFrames |-> FuseFrames, maxMoves |-> MaxMoves, maxFall |-> 1,
     fallKinds |-> {"BOMB"}, rise |-> 0]

NextFuse ==
    \/ Tick(Fuse)
    \/ PointerMove(Fuse)
    \/ ApplyCode
    \/ Render
    \/ Effect

SpecFuse == Init /\ [][NextFuse]_vars

\* targets and bombs that are slashed or fall below the cull line: 100 ms frames, a
\* spawn every frame once the spawn rate is applied
Outcome ==
    [firstGaps |-> {100 * Millisecond}, gaps |-> {100 * Millisecond},
     tickRolls |-> SessionRolls, slashRolls |-> SlashRolls, maxRay |-> 1,
     maxFrames |-> OutcomeFrames, maxMoves |-> MaxMoves, maxFall |-> 1,
     fallKinds |-> {"TARGET", "BOMB"}, rise |-> 0]

NextOutcome ==
    \/ Tick(Outcome)
    \/ PointerMove(Outcome)
    \/ ApplyCode
    \/ Render
    \/ Effect

SpecOutcome == Init /\ [][NextOutcome]_vars

\* handleApplyCode with the spawn rate and the score edited in the JSON text: a game
\* taken up near the top of the score range
CodeScores == {0, MaxScore - 2}

ApplyScore ==
    \E v \in CodeRates, sc \in CodeScores :
        ConfigChange([gameConfig EXCEPT !.spawnRate = v, !.score = sc])

\* plastic and glass targets slashed near the top of the score range: 100 ms frames
ScoreRolls ==
    {[isBomb |-> FALSE, isGlass |-> g, shape |-> "cube", color |-> "Error", x |-> 0,
      targetX |-> 0, targetY |-> 5000, fuseDraws |-> <<0>>, fuseLife |-> 4000] :
        g \in BOOLEAN}

Score ==
    [firstGaps |-> {100 * Millisecond}, gaps |-> {100 * Millisecond},
     tickRolls |-> ScoreRolls, slashRolls |-> SlashRolls, maxRay |-> 1,
     maxFrames |-> ScoreFrames, maxMoves |-> MaxMoves, maxFall |-> 0, fallKinds |-> {},
     rise |-> 0]

NextScore ==
    \/ Tick(Score)
    \/ PointerMove(Score)
    \/ ApplyScore
    \/ Render
    \/ Effect

SpecScore == Init /\ [][NextScore]_vars

\* the play toggle of the control panel, used to pause: the spawner stops
Pause == gameConfig.isPlaying /\ TogglePlaying

\* effects left to fade: the default spawn rate, 100 ms frames, slashes during the first
\* SlashUntil frames, the game paused at some frame or played on
Drain ==
    [firstGaps |-> {100 * Millisecond}, gaps |-> {100 * Millisecond},
     tickRolls |-> SessionRolls, slashRolls |-> SlashRolls, maxRay |-> 1,
     maxFrames |-> DrainFrames, maxMoves |-> MaxMoves, maxFall |-> 0, fallKinds |-> {},
     rise |-> 0]

NextDrain ==
    \/ Tick(Drain)
    \/ Slash(Drain, SlashUntil)
    \/ Pause
    \/ Render
    \/ Effect

SpecDrain == Init /\ [][NextDrain]_vars /\ FrameLoop(Drain)

\* hand tracking switched on and off again during a game, pointer events in both modes
NextSources ==
    \/ Tick(Hand)
    \/ PointerMove(Hand)
    \/ ApplyCode
    \/ EnableHandTracking
    \/ DisableHandTracking
    \/ SetupHandTracking
    \/ Render
    \/ Effect

SpecSources == Init /\ [][NextSources]_vars

\* launches from the ends and the middle of the spawn line to the corners of the apex
\* range, under the default gravity and both ends of the gravity slider
LaunchRolls ==
    {[isBomb |-> b, isGlass |-> FALSE, shape |-> "cube", color |-> "Error", x |-> x,
      targetX |-> tx, targetY |-> ty, fuseDraws |-> <<0>>, fuseLife |-> 4000] :
        b \in BOOLEAN, x \in {-5000, 0, 4999}, tx \in {-3000, 2999}, ty \in {2000, 7999}}

Launch ==
    [firstGaps |-> Gaps, gaps |-> Gaps, tickRolls |-> LaunchRolls, slashRolls |-> SlashRolls, maxRay |-> 1,
     maxFrames |-> LaunchFrames, maxMoves |-> 0, maxFall |-> 0, fallKinds |-> {},
     rise |-> 0]

NextLaunch ==
    \/ Tick(Launch)
    \/ SetGravity

SpecLaunch == Init /\ [][NextLaunch]_vars

\* a long stroke over an empty field: up to TrailMoves samples between two frames
Trail ==
    [firstGaps |-> Gaps, gaps |-> Gaps, tickRolls |-> SessionRolls, slashRolls |-> SlashRolls, maxRay |-> 1,
     maxFrames |-> TrailFrames, maxMoves |-> TrailMoves, maxFall |-> 0, fallKinds |-> {},
     rise |-> 0]

NextTrail ==
    \/ Tick(Trail)
    \/ PointerMove(Trail)
    \/ PointerLeave

SpecTrail == Init /\ [][NextTrail]_vars

(************************ properties ***************************************)
\* the ids of the entities the engine instance has created
Created == 1..engine.made

\* the entities of the registry that are made as kind
Listed(kind) ==
    {engine.entities[i].id : i \in {j \in 1..Len(engine.entities) :
                                       engine.entities[j].type = kind}}

\* the registry's entry of entity id
EntityOf(id) == engine.entities[IndexOf(engine.entities, id)]

\* the steps of one engine instance (handleRestart mounts a new one)
SameEngine == gameId' = gameId /\ engine'.made >= engine.made

\* C1: a slash sample that hits (and so shatters) a BOMB invokes onBomb once and
\* onScore not at all, one that hits a TARGET invokes onScore once and onBomb not at
\* all, and no callback is invoked for an entity but by a hit on a BOMB or a TARGET
C1_HitDispatch ==
    [][SameEngine =>
        \A id \in Created :
            LET f == engine.fate[id]
                g == engine'.fate[id]
            IN  /\ g.shatters # f.shatters =>
                     /\ f.kind = "BOMB" =>
                            g.onBomb = f.onBomb + 1 /\ g.onScore = f.onScore
                     /\ f.kind = "TARGET" =>
                            g.onScore = f.onScore + 1 /\ g.onBomb = f.onBomb
                /\ (g.onScore # f.onScore \/ g.onBomb # f.onBomb) =>
                     /\ g.shatters = f.shatters + 1
                     /\ f.kind \in {"BOMB", "TARGET"}
                     /\ id \in Ids(engine.entities) /\ EntityOf(id).active]_vars

\* a bomb and a target have been hit, and the target's debris is on the field
C1_Witness ==
    \E b \in Listed("BOMB"), t \in Listed("TARGET"), d \in Listed("DEBRIS") :
        /\ engine.fate[b].shatters = 1 /\ engine.fate[b].onBomb = 1
        /\ engine.fate[b].onScore = 0
        /\ engine.fate[t].shatters = 1 /\ engine.fate[t].onScore = 1
        /\ engine.fate[t].onBomb = 0
        /\ engine.fate[d].onScore = 0 /\ engine.fate[d].onBomb = 0

\* C2: shatterEntity runs at most once on any entity
C2_ShatteredOnce == \A id \in Created : engine.fate[id].shatters <= 1

\* a target was shattered, a frame has passed since (the hit-stop timer has run down
\* from its reset value), and a later slash sample has been taken with the pointer down
C2_Witness ==
    \E t \in Listed("TARGET") :
        /\ engine.fate[t].shatters = 1
        /\ engine.hitStopTimer < HitStopTime
        /\ engine.lastMouse
        /\ engine.trailNodes # <<>> /\ engine.trailNodes[1] = Second

\* the onBomb calls the engine has made
RECURSIVE BombCalls(_)
BombCalls(fate) == IF fate = <<>> THEN 0 ELSE Head(fate).onBomb + BombCalls(Tail(fate))

\* the handleBomb updaters React has run since the engine mounted
BombsApplied ==
    BombCalls(engine.fate) - Len(SelectSeq(queue, LAMBDA u : u.op = "bomb"))

\* C3: from lives = 3, gameOver is false while fewer than three handleBomb updates have
\* run, each of them taking one life, and true once the third has run, with lives = 0
\* and isPlaying = false
C3_GameOverAtThirdBomb ==
    /\ BombsApplied < InitialLives =>
            /\ ~gameConfig.gameOver
            /\ gameConfig.lives = InitialLives - BombsApplied
    /\ BombsApplied >= InitialLives =>
            /\ gameConfig.gameOver
            /\ gameConfig.lives = 0
            /\ ~gameConfig.isPlaying

\* the third handleBomb update has just run
C3_Witness ==
    /\ BombsApplied = InitialLives
    /\ gameConfig.gameOver
    /\ effectPending

\* C4: in a step taken while configRef.current.gameOver is true nothing is spawned,
\* spawnTimer stays, no onMiss / onScore / onBomb is invoked, nothing is shattered, no
\* trail node is added and no update is queued
C4_InertWhileGameOver ==
    [][(configRef.gameOver /\ SameEngine) =>
        /\ engine'.made = engine.made
        /\ engine'.spawnTimer = engine.spawnTimer
        /\ \A id \in Created :
               /\ engine'.fate[id].onMiss = engine.fate[id].onMiss
               /\ engine'.fate[id].onScore = engine.fate[id].onScore
               /\ engine'.fate[id].onBomb = engine.fate[id].onBomb
               /\ engine'.fate[id].shatters = engine.fate[id].shatters
        /\ Len(engine'.trailNodes) <= Len(engine.trailNodes)
        /\ Len(queue') <= Len(queue)]_vars

\* the game is over in configRef and a tick has culled an unslashed target without
\* calling onMiss, with the pointer down on the canvas
C4_Witness ==
    /\ configRef.gameOver
    /\ engine.lastMouse
    /\ \E id \in Created :
           /\ engine.fate[id].kind = "TARGET"
           /\ engine.fate[id].culled
           /\ engine.fate[id].shatters = 0
           /\ engine.fate[id].onMiss = 0

\* C5: once gameConfig.gameOver is true, score and lives do not change until
\* handleRestart
C5_FrozenAfterGameOver ==
    [][(gameConfig.gameOver /\ gameId' = gameId) =>
        /\ gameConfig'.score = gameConfig.score
        /\ gameConfig'.lives = gameConfig.lives]_vars

\* C6: a tick that culls an entity invokes onMiss for it once if it is an active TARGET
\* and configRef.current has isPlaying and not gameOver, and not at all otherwise;
\* onMiss is invoked for nothing but an entity being culled
C6_MissOnCull ==
    [][SameEngine =>
        \A id \in Created :
            LET f == engine.fate[id]
                g == engine'.fate[id]
            IN  IF g.culled /\ ~f.culled
                THEN /\ id \in Ids(engine.entities)
                     /\ IF /\ f.kind = "TARGET" /\ EntityOf(id).active
                            /\ configRef.isPlaying /\ ~configRef.gameOver
                         THEN g.onMiss = f.onMiss + 1
                         ELSE g.onMiss = f.onMiss
                ELSE g.onMiss = f.onMiss]_vars

\* a tick has culled an unslashed target and called onMiss for it
C6_Witness ==
    \E id \in Created :
        /\ engine.fate[id].kind = "TARGET"
        /\ engine.fate[id].culled
        /\ engine.fate[id].onMiss = 1

\* C7: between ticks no entity of the registry is below the cull line, and an entity
\* a tick has culled is in none of the scene, the physics world and the registry
C7_CullRemoves ==
    /\ \A i \in 1..Len(engine.entities) : engine.entities[i].y >= CullY
    /\ \A id \in Created :
           engine.fate[id].culled =>
               /\ id \notin engine.scene
               /\ id \notin engine.world
               /\ id \notin Ids(engine.entities)

\* one tick has culled two debris shards, and others are still in the registry
C7_Witness ==
    \E a \in Created, b \in Created :
        /\ a # b
        /\ engine.fate[a].kind = "DEBRIS" /\ engine.fate[a].culled
        /\ engine.fate[b].kind = "DEBRIS" /\ engine.fate[b].culled
        /\ Listed("DEBRIS") # {}

\* C8: an entity shattered by a hit is not in engine.entities
C8_ShatteredLeaveRegistry ==
    \A i \in 1..Len(engine.entities) : engine.entities[i].active

\* C9: for every entity ever created the mesh is in the scene exactly if the body is
\* in the physics world, and an active entity of the registry has both
C9_MeshBodyPaired ==
    /\ \A id \in Created : id \in engine.scene <=> id \in engine.world
    /\ \A i \in 1..Len(engine.entities) :
           engine.entities[i].active =>
               /\ engine.entities[i].id \in engine.scene
               /\ engine.entities[i].id \in engine.world

\* a shattered target is detached, one of its shards was culled and another is still
\* in flight
C9_Witness ==
    \E t \in Listed("TARGET"), d \in Listed("DEBRIS"), c \in Created :
        /\ engine.fate[t].shatters = 1 /\ t \notin engine.scene
        /\ EntityOf(d).active /\ d \in engine.world
        /\ engine.fate[c].kind = "DEBRIS" /\ engine.fate[c].culled

\* the steps that are a tick of the running engine
IsTick == SameEngine /\ engine'.frames # engine.frames

C12_TrailCapAndExpiry ==
    [][/\ Len(engine'.trailNodes) <= 30
       /\ \A i \in 1..Len(engine'.trailNodes) : engine'.trailNodes[i] > 0
       /\ (SameEngine /\ moves' = moves + 1) =>
              LET old == engine.trailNodes
                  new == engine'.trailNodes
              IN  /\ new[1] = 10000
                  /\ Tail(new) = SubSeq(old, 1, IF Len(old) >= 30 THEN 29 ELSE Len(old))]_vars

\* the trail is full and a further sample has dropped its oldest node
C12_Witness == Len(engine.trailNodes) = 30 /\ moves > 30

\* C13: after handleRestart the running engine has no entity, particle or trail node,
\* nothing in the scene or the physics world, spawnTimer, hitStopTimer and
\* shakeStrength 0 and lastMouse null, and the instance it replaces has no frame
\* request pending
C13_RestartResetsEngine ==
    [][gameId' # gameId =>
        /\ engine'.entities = <<>> /\ engine'.scene = {} /\ engine'.world = {}
        /\ engine'.particles = <<>>
        /\ engine'.trailNodes = <<>>
        /\ engine'.spawnTimer = 0 /\ engine'.hitStopTimer = 0 /\ engine'.shakeStrength = 0
        /\ ~engine'.lastMouse
        /\ engine'.frames = 0
        /\ retired'.frameRequests = {}]_vars

\* the restarted game's engine before its first frame
C13_Witness ==
    /\ gameId = 1 /\ engine.frames = 0 /\ moves = 0
    /\ engine.entities = <<>> /\ engine.particles = <<>>

\* C14: after handleRestart gameConfig is the initial config: score 0, lives 3, gameOver
\* false, isPlaying true, spawnRate 800
C14_RestartResetsConfig ==
    [][gameId' # gameId =>
        gameConfig' = [isPlaying |-> TRUE, score |-> 0, lives |-> 3, gameOver |-> FALSE,
                       spawnRate |-> 800, useHandTracking |-> FALSE,
                       gravity |-> -9800]]_vars

\* the restarted game, its config back from a tuned spawn rate and game over
C14_Witness ==
    /\ gameId = 1
    /\ gameConfig.spawnRate = 800 /\ gameConfig.lives = 3 /\ ~gameConfig.gameOver
    /\ configRef = gameConfig

\* C19: an unmounted instance has no frame request pending and runs no tick
C19_TeardownCancelsLoop == retired.frameRequests = {} /\ retired.ticks = 0

\* the game was restarted and the new instance has run frames since
C19_Witness == gameId = 1 /\ engine.frames >= 2 /\ retired.ticks = 0

\* C15: a hit on a target passes onScore exactly 50 points when the target has the
\* glass finish and exactly 10 otherwise, whatever its shape, and no score update
\* carries another value
C15_PointsByFinish ==
    [][SameEngine =>
        /\ \A id \in Created :
              engine'.fate[id].onScore # engine.fate[id].onScore =>
                  /\ EntityOf(id).shape \in Shapes
                  /\ queue' = Append(queue,
                         [op |-> "score", arg |-> IF EntityOf(id).glass THEN 50 ELSE 10])
        /\ \A i \in 1..Len(queue') :
              queue'[i].op = "score" => queue'[i].arg \in {10, 50}]_vars

\* a glass pyramid has been hit and its 50 points are queued
C15_Witness ==
    \E t \in Listed("TARGET") :
        /\ EntityOf(t).glass /\ EntityOf(t).shape = "pyramid"
        /\ engine.fate[t].onScore = 1
        /\ queue = <<[op |-> "score", arg |-> 50]>>

\* the handleBomb updates among the queued ones
BombUpdates(q) == Len(SelectSeq(q, LAMBDA u : u.op = "bomb"))

\* the steps in which React runs the queued updaters
RunsUpdates == gameId' = gameId /\ queue # <<>> /\ queue' = <<>>

\* lives after k more lives are taken one at a time, none below 0
RECURSIVE LivesAfter(_, _)
LivesAfter(lives, k) ==
    IF k = 0 THEN lives ELSE LivesAfter(IF lives > 1 THEN lives - 1 ELSE 0, k - 1)

\* C16 as stated: handleMiss leaves gameConfig as it is, only handleBomb changes
\* lives, and each handleBomb update that runs decreases lives by exactly 1
C16_EachBombTakesALife ==
    [][gameId' = gameId =>
        /\ gameConfig'.lives =
               IF RunsUpdates THEN gameConfig.lives - BombUpdates(queue)
               ELSE gameConfig.lives
        /\ (\E id \in Created : engine'.fate[id].onMiss # engine.fate[id].onMiss) =>
               gameConfig' = gameConfig /\ queue' = queue]_vars

\* C16 amended: handleMiss leaves gameConfig as it is and queues no update, only
\* handleBomb changes lives, and each handleBomb update that runs decreases lives by
\* exactly 1 when lives is above 1 and sets lives to 0 otherwise
C16_BombTakesALifeDownToZero ==
    [][gameId' = gameId =>
        /\ gameConfig'.lives =
               IF RunsUpdates THEN LivesAfter(gameConfig.lives, BombUpdates(queue))
               ELSE gameConfig.lives
        /\ (\E id \in Created : engine'.fate[id].onMiss # engine.fate[id].onMiss) =>
               gameConfig' = gameConfig /\ queue' = queue]_vars

\* a target has escaped with onMiss called for it, and four handleBomb updates
\* have run on the three lives
C16_Witness ==
    /\ \E id \in Created : engine.fate[id].kind = "TARGET" /\ engine.fate[id].onMiss = 1
    /\ BombsApplied = InitialLives + 1
    /\ gameConfig.lives = 0

\* C17: the delta a tick hands to world.step is at most 0.1 s, whatever the gap
\* between the frame's timestamp and lastTime
C17_DeltaClamped == engine.stepDelta <= Second \div 10

\* the first tick after mount, 5 s after the time origin, has stepped the world by 0.1 s
C17_Witness ==
    /\ engine.frames = 1
    /\ engine.stepDelta = Second \div 10
    /\ engine.spawnTimer = 100 * Millisecond

\* C18: after a tick every entity of the registry has its mesh where its body is, and
\* no other step moves the mesh of an entity
C18_MeshFollowsBody ==
    [][SameEngine =>
        IF IsTick
        THEN \A i \in 1..Len(engine'.entities) :
                 engine'.entities[i].mesh = engine'.entities[i].y
        ELSE \A i \in 1..Len(engine.entities) :
                 /\ i <= Len(engine'.entities)
                 /\ engine'.entities[i].id = engine.entities[i].id
                 /\ engine'.entities[i].mesh = engine.entities[i].mesh]_vars

\* a tick has moved a hit target's debris and its mesh with it, and the target's mesh
\* is where its body stopped
C18_Witness ==
    \E t \in Listed("TARGET"), d \in Listed("DEBRIS") :
        /\ engine.fate[t].shatters = 1
        /\ EntityOf(t).mesh = EntityOf(t).y
        /\ EntityOf(d).y > EntityOf(t).y
        /\ EntityOf(d).mesh = EntityOf(d).y

\* what slash processing does: it adds a trail node, shatters, calls onScore or onBomb,
\* or queues an update
SlashProcessed ==
    \/ Len(engine'.trailNodes) > Len(engine.trailNodes)
    \/ Len(queue') > Len(queue)
    \/ \E id \in Created :
           \/ engine'.fate[id].shatters # engine.fate[id].shatters
           \/ engine'.fate[id].onScore # engine.fate[id].onScore
           \/ engine'.fate[id].onBomb # engine.fate[id].onBomb

\* the steps that are a mousemove / touchmove event
IsPointerMove == SameEngine /\ moves' = moves + 1

HandTrackingFailed ==
    configRef.useHandTracking /\ engine.handSetup \in {"modelError", "cameraDenied"}

\* C21: with useHandTracking on and the setup failed, a tick feeds no hand sample to
\* the resolver and a pointer move is still processed: its trail node is put in
C21_PointerFallback ==
    [][(SameEngine /\ HandTrackingFailed) =>
        /\ IsTick => ~SlashProcessed
        /\ (IsPointerMove /\ ~configRef.gameOver) =>
               /\ engine'.trailNodes # <<>>
               /\ Head(engine'.trailNodes) = Second
               /\ Len(engine'.trailNodes) = Min(Len(engine.trailNodes) + 1, TRAIL_CAP)]_vars

\* the cache key of the material spawnEntity asked for when it built the entity
MaterialKey(ent) ==
    <<ent.color, IF ent.type = "BOMB" THEN "BOMB_MATTE"
                 ELSE IF ent.glass THEN "GLASS" ELSE "PLASTIC">>

\* C22: a key of the material cache keeps the instance first stored for it, one
\* material is built per key, different keys hold different instances, and every
\* entity's material is the cached instance of its key
C22_MaterialCache ==
    [][SameEngine =>
        /\ \A k \in DOMAIN engine.materials :
               /\ k \in DOMAIN engine'.materials
               /\ engine'.materials[k] = engine.materials[k]
        /\ engine'.materialsMade = Cardinality(DOMAIN engine'.materials)
        /\ \A k1, k2 \in DOMAIN engine'.materials :
               engine'.materials[k1] = engine'.materials[k2] => k1 = k2
        /\ \A i \in 1..Len(engine'.entities) :
               /\ MaterialKey(engine'.entities[i]) \in DOMAIN engine'.materials
               /\ engine'.entities[i].material =
                      engine'.materials[MaterialKey(engine'.entities[i])]]_vars

\* a glass target was hit: its shards share the one material built for their key, which
\* is not the target's
C22_Witness ==
    \E t \in Listed("TARGET"), d1, d2 \in Listed("DEBRIS") :
        /\ d1 # d2
        /\ EntityOf(t).glass
        /\ EntityOf(d1).material = EntityOf(d2).material
        /\ EntityOf(d1).material # EntityOf(t).material
        /\ engine.materialsMade = 2

\* the rounding allowed to the thousandths the launch is computed in: 0.02 units
LaunchTolerance == Milli \div 50

\* C23: with t = vy / g, a launched target or bomb is at x + vx t = targetX and at
\* height -14 + vy t - g t t / 2 = targetY, up to rounding
C23_LaunchReachesApex ==
    \A i \in 1..Len(engine.entities) :
        engine.entities[i].type # "DEBRIS" =>
            LET L == engine.entities[i].launch
                t == (L.vy * Milli) \div L.g
            IN  /\ L.g > 0
                /\ Abs(L.x + (L.vx * t) \div Milli - L.targetX) <= LaunchTolerance
                /\ Abs(SpawnY * Milli + (L.vy * t) \div Milli
                           - (((L.g * t) \div Milli) * t) \div (2 * Milli)
                       - L.targetY) <= LaunchTolerance

\* a launch from the right end of the spawn line to the top left corner of the apex
\* range under the strongest gravity of the slider
C23_Witness ==
    \E i \in 1..Len(engine.entities) :
        LET L == engine.entities[i].launch
        IN  /\ L.g = 20 * Milli /\ L.x = 4999 /\ L.targetX = -3000 /\ L.targetY = 7999
            /\ L.vx < 0 /\ L.vy > 0

\* a hit: something is shattered, onScore or onBomb is called, or an update is queued
HitProcessed ==
    \/ Len(queue') > Len(queue)
    \/ \E id \in Created :
           \/ engine'.fate[id].shatters # engine.fate[id].shatters
           \/ engine'.fate[id].onScore # engine.fate[id].onScore
           \/ engine'.fate[id].onBomb # engine.fate[id].onBomb

\* C24: a sample processed while lastMouse is null records lastMouse and adds its
\* trail node and is never a hit; pointer leave and a hand-tracking detection without a
\* hand set lastMouse to null and clear the trail
C24_TwoSampleBaseline ==
    [][SameEngine =>
        /\ ~engine.lastMouse => ~HitProcessed
        /\ (~engine.lastMouse /\ Len(engine'.trailNodes) > Len(engine.trailNodes)) =>
               engine'.lastMouse
        /\ PointerLeave => ~engine'.lastMouse /\ engine'.trailNodes = <<>>
        /\ \A sroll \in SlashRolls :
               LET lost == [frame |-> TRUE, detected |-> FALSE, hit |-> NoHit]
                   r == handTrackingUpdate(engine, configRef, mountConfig, queue, lost, sroll)
               IN  lost \in HandInputs(engine, configRef, Hand.maxRay) =>
                       ~r.eng.lastMouse /\ r.eng.trailNodes = <<>> /\ r.queue = queue]_vars

\* the first sample of a gesture with a target on the field: nothing is hit, the trail
\* has the sample's node and lastMouse is recorded
C24_Witness ==
    /\ Targets(engine.entities) # {}
    /\ \A id \in Created : engine.fate[id].shatters = 0
    /\ engine.lastMouse
    /\ Len(engine.trailNodes) = 1
    /\ queue = <<>>

\* C10: the number of live particles (engine.particles.length, and with it the
\* instance count written to particleMesh.count) never exceeds MAX_PARTICLES
C10_ParticleCapacity ==
    /\ SumN(engine.particles) <= MAX_PARTICLES
    /\ engine.particleCount <= MAX_PARTICLES

\* the entities a step's slash sample hit: shattered, or reported to onScore or onBomb
Slashed ==
    {id \in Created :
        \/ engine'.fate[id].shatters # engine.fate[id].shatters
        \/ engine'.fate[id].onScore # engine.fate[id].onScore
        \/ engine'.fate[id].onBomb # engine.fate[id].onBomb}

\* C25: a slash sample hits at most one entity, and the entity it hits was active and
\* not DEBRIS when the sample was taken, however many entities its ray crosses; the
\* entity hit is the nearest active non-debris one on the ray
C25_SingleNearestHit ==
    [][SameEngine =>
        /\ Cardinality(Slashed) <= 1
        /\ \A id \in Slashed :
               LET ent == engine.entities[IndexOf(engine.entities, id)]
               IN  id \in Ids(engine.entities) /\ ent.active /\ ent.type # "DEBRIS"
        /\ LET field == {ent.id : ent \in {engine.entities[i] :
                                   i \in {j \in 1..Len(engine.entities) :
                                       /\ engine.entities[j].active
                                       /\ engine.entities[j].type # "DEBRIS"}}}
               targets == Targets(engine.entities)
           IN  \A ray \in Rays(engine.entities, MaxRay) :
                   LET live == {i \in 1..Len(ray) : ray[i] \in field}
                   IN  intersectObjects(targets, ray) =
                           IF live = {} THEN NoHit
                           ELSE ray[CHOOSE i \in live : \A j \in live : i <= j]]_vars

\* one target has been shattered by a sample while another target is still active and
\* debris is on the field
C25_Witness ==
    \E t, u, d \in Created :
        /\ engine.fate[t].kind # "DEBRIS" /\ engine.fate[t].shatters = 1
        /\ u \in Targets(engine.entities) /\ engine.fate[u].shatters = 0
        /\ engine.fate[d].kind = "DEBRIS" /\ d \in Ids(engine.entities)
        /\ engine.entities[IndexOf(engine.entities, d)].active

\* the entities a step created, and the debris among them
NewEntities == (engine.made + 1)..engine'.made

NewDebris == {id \in NewEntities : engine'.fate[id].kind = "DEBRIS"}

\* C26: a pointer sample that shatters a BOMB adds exactly 100 particles and no entity;
\* one that shatters a TARGET adds 4 to 6 DEBRIS entities, each active with its mesh
\* in the scene and its body in the world, nothing else, and exactly 15 particles; a
\* sample that shatters nothing adds neither; and no step creates debris unless it
\* shatters a TARGET
C26_ShatterByProducts ==
    [][SameEngine =>
        /\ NewDebris # {} => \E t \in Slashed : engine.fate[t].kind = "TARGET"
        /\ IsPointerMove =>
               LET added == SumN(engine'.particles) - SumN(engine.particles)
               IN  /\ Slashed = {} => NewEntities = {} /\ added = 0
                   /\ \A t \in Slashed :
                          IF engine.fate[t].kind = "BOMB"
                          THEN NewEntities = {} /\ added = 100
                          ELSE /\ engine.fate[t].kind = "TARGET"
                               /\ NewEntities = NewDebris
                               /\ Cardinality(NewDebris) \in 4..6
                               /\ added = 15
                               /\ \A d \in NewDebris :
                                      /\ d \in Ids(engine'.entities)
                                      /\ engine'.entities[IndexOf(engine'.entities, d)].active
                                      /\ d \in engine'.scene /\ d \in engine'.world]_vars

\* a bomb has been shattered into its explosion and a target into six shards, all of
\* them on the field
C26_Witness ==
    /\ \E b \in Created : engine.fate[b].kind = "BOMB" /\ engine.fate[b].shatters = 1
    /\ \E t \in Created : engine.fate[t].kind = "TARGET" /\ engine.fate[t].shatters = 1
    /\ Cardinality({d \in Ids(engine.entities) :
                       /\ engine.fate[d].kind = "DEBRIS"
                       /\ engine.entities[IndexOf(engine.entities, d)].active
                       /\ d \in engine.scene /\ d \in engine.world}) = 6
    /\ SumN(engine.particles) >= 15

\* the targets and bombs a step spawned
NewSpawns == {id \in NewEntities : engine'.fate[id].kind # "DEBRIS"}

\* C27: a tick with isPlaying and not gameOver in its config snapshot adds its
\* effective delta to spawnTimer and, if the sum strictly exceeds spawnRate, spawns
\* exactly one target or bomb and resets spawnTimer to 0, else spawns nothing; a tick
\* with isPlaying false or gameOver true spawns nothing and leaves spawnTimer alone
C27_SpawnCadence ==
    [][IsTick =>
        LET due == engine.spawnTimer + engine'.stepDelta
        IN  IF configRef.isPlaying /\ ~configRef.gameOver
            THEN IF due > configRef.spawnRate * Millisecond
                 THEN Cardinality(NewSpawns) = 1 /\ engine'.spawnTimer = 0
                 ELSE NewSpawns = {} /\ engine'.spawnTimer = due
            ELSE NewSpawns = {} /\ engine'.spawnTimer = engine.spawnTimer]_vars

\* with a spawn every tick, three bombs were spawned and slashed and the game is over:
\* the fourth tick has spawned nothing and left spawnTimer at the 0 of the last spawn
C27_Witness ==
    /\ engine.frames = 4
    /\ engine.made = 3
    /\ engine.spawnTimer = 0
    /\ configRef.gameOver /\ configRef.spawnRate = 50

\* the clamped deltas of the frames of the hit-stop runs
HitStopDeltas == {Min(g, Second \div 10) : g \in HitStop.firstGaps \cup HitStop.gaps}

\* C28: a tick that starts with hitStopTimer > 0 takes the clamped frame delta off the
\* timer and steps the world by a tenth of it; a tick that starts with hitStopTimer <= 0
\* leaves the timer alone and steps by the whole clamped delta; a pointer sample that
\* shatters a TARGET sets hitStopTimer to 0.05 s and no other sample changes it; and
\* once the slashing has stopped, the frame loop takes hitStopTimer to 0 or below
C28_HitStop ==
    /\ [][SameEngine =>
            /\ IsTick =>
                   LET d == engine.hitStopTimer - engine'.hitStopTimer
                   IN  IF engine.hitStopTimer > 0
                       THEN d \in HitStopDeltas /\ 10 * engine'.stepDelta <= d
                            /\ d < 10 * (engine'.stepDelta + 1)
                       ELSE d = 0 /\ engine'.stepDelta \in HitStopDeltas
            /\ IsPointerMove =>
                   IF \E t \in Slashed : engine.fate[t].kind = "TARGET"
                   THEN engine'.hitStopTimer = Second \div 20
                   ELSE engine'.hitStopTimer = engine.hitStopTimer]_vars
    /\ (engine.hitStopTimer > 0) ~> (engine.hitStopTimer <= 0)

\* three 1/60 s frames into the hit-stop of a slashed target: the timer is down from
\* 0.05 s by three whole frames and the world was stepped by a tenth of a frame
C28_Witness ==
    /\ \E t \in Created : engine.fate[t].kind = "TARGET" /\ engine.fate[t].shatters = 1
    /\ engine.hitStopTimer = Second \div 20 - 3 * FrameGap60
    /\ engine.hitStopTimer > 0
    /\ engine.stepDelta = FrameGap60 \div 10

\* C29: a tick that starts with shakeStrength > 0 multiplies it by 0.9 and, if the
\* product is below 0.01, sets it to 0 with the camera back at rest; a tick that starts
\* with shakeStrength 0 leaves it 0; a pointer sample sets it to 1.2 when it shatters a
\* bomb, to 0.1 when it shatters a target, and changes nothing otherwise; whenever
\* shakeStrength is 0 the camera is at rest; and once the slashing has stopped the
\* frame loop takes shakeStrength to 0
C29_ShakeSettles ==
    /\ [](engine.shakeStrength = 0 => engine.cameraAtRest)
    /\ [][SameEngine =>
            /\ IsTick =>
                   LET decayed == (engine.shakeStrength * 9) \div 10
                   IN  IF engine.shakeStrength > 0 /\ decayed >= 10000
                       THEN engine'.shakeStrength = decayed
                       ELSE engine'.shakeStrength = 0 /\ engine'.cameraAtRest
            /\ IsPointerMove =>
                   IF \E t \in Slashed : engine.fate[t].kind = "BOMB"
                   THEN engine'.shakeStrength = 1200000
                   ELSE IF \E t \in Slashed : engine.fate[t].kind = "TARGET"
                   THEN engine'.shakeStrength = 100000
                   ELSE /\ engine'.shakeStrength = engine.shakeStrength
                        /\ engine'.cameraAtRest = engine.cameraAtRest]_vars
    /\ (engine.shakeStrength > 0) ~> (engine.shakeStrength = 0)

\* a bomb, and nothing else, was slashed, and 46 ticks after the last frame with a
\* slash the shake is over and the camera is at rest
C29_Witness ==
    /\ \E b \in Created :
           /\ engine.fate[b].kind = "BOMB" /\ engine.fate[b].shatters = 1
           /\ \A t \in Created : engine.fate[t].shatters = 1 => t = b
    /\ engine.frames = SlashUntil + 46
    /\ engine.shakeStrength = 0 /\ engine.cameraAtRest

\* C30: the world's gravity is the gravity of the config snapshot the tick reads
\* (configRef.current, which the particle pass reads too), and, once the effects of a
\* render have run, the gravity of the current config
C30_LiveGravity ==
    /\ engine.gravity = configRef.gravity
    /\ ~effectPending => engine.gravity = gameConfig.gravity

\* the gravity slider was moved to 20 in the restarted game, which has run a tick and
\* spawned under it
C30_Witness ==
    /\ gameId = 1
    /\ configRef.gravity = -20 * Milli /\ engine.gravity = -20 * Milli
    /\ engine.frames > 0
    /\ \E i \in 1..Len(engine.entities) : engine.entities[i].launch.g = 20 * Milli

C32_ExclusiveSources ==
    [][SameEngine =>
        /\ (IsPointerMove /\ configRef.useHandTracking) =>
               ~SlashProcessed /\ engine' = engine /\ queue' = queue
        /\ (IsTick /\ ~configRef.useHandTracking) =>
               ~SlashProcessed /\ engine'.lastMouse = engine.lastMouse]_vars

\* hand tracking was switched on, its landmarker loaded, and switched off again: the
\* pointer drives the resolver, with a gesture begun in the current frame
C32_Witness ==
    /\ ~configRef.useHandTracking /\ engine.handLandmarker /\ ~engine.videoReady
    /\ engine.frames >= 1 /\ moves = 1
    /\ engine.lastMouse /\ Len(engine.trailNodes) = 1

\* what a tick's Hand Tracking Update does when it resolves a sample: it adds a trail
\* node, begins or ends a gesture, or hits an entity
HandResolved ==
    \/ Len(engine'.trailNodes) > Len(engine.trailNodes)
    \/ engine'.lastMouse # engine.lastMouse
    \/ Slashed # {}

\* C33: a tick adds at most one trail node and hits at most one entity; a tick that
\* resolves a hand sample found the video's currentTime different from lastVideoTime and
\* records it; a tick that finds the video at the frame it resolved last resolves nothing
C33_OncePerVideoFrame ==
    [][IsTick =>
        /\ Len(engine'.trailNodes) <= Len(engine.trailNodes) + 1
        /\ Cardinality(Slashed) <= 1
        /\ HandResolved =>
               /\ configRef.useHandTracking
               /\ engine'.currentTime # engine.lastVideoTime
               /\ engine'.lastVideoTime = engine'.currentTime
        /\ engine'.currentTime = engine.lastVideoTime =>
               ~HandResolved /\ engine'.lastVideoTime = engine.lastVideoTime]_vars

\* the video's first frame showed a hand and was resolved, and the ticks that followed
\* found the video at that frame still: the gesture is open, its one trail node has
\* faded and no other was added
C33_Witness ==
    /\ configRef.useHandTracking /\ engine.videoReady
    /\ engine.lastVideoTime = 0 /\ engine.currentTime = 0
    /\ engine.lastMouse /\ engine.trailNodes = <<>>
    /\ moves = 0

\* the entities in the registry that are active bombs
LiveBombs(e) ==
    {e.entities[i].id : i \in {j \in 1..Len(e.entities) :
                                e.entities[j].active /\ e.entities[j].type = "BOMB"}}

\* C34: after a tick every active bomb in the registry has added 3 to 5 particles in
\* that tick, and every other entity ever made (a shattered bomb, a culled bomb, a
\* target, a shard) has added none
C34_FuseSparks ==
    [][IsTick =>
        \A id \in 1..engine'.made :
            IF id \in LiveBombs(engine')
            THEN engine'.fate[id].sparks \in 3..5
            ELSE engine'.fate[id].sparks = 0]_vars

\* after a tick: a bomb burns with 3 to 5 new sparks, another bomb was slashed and is in
\* the registry still, and adds nothing
C34_Witness ==
    /\ \E id \in LiveBombs(engine) : engine.fate[id].sparks \in 3..5
    /\ \E id \in Created :
           /\ engine.fate[id].kind = "BOMB" /\ engine.fate[id].shatters = 1
           /\ id \in Ids(engine.entities) /\ engine.fate[id].sparks = 0
    /\ SumN(engine.particles) > 0

\* C35: over its lifetime a target causes one callback at most, an onScore or an onMiss
\* and never an onBomb; a bomb causes one onBomb at most and never an onMiss or onScore
C35_SingleOutcome ==
    \A id \in Created :
        /\ engine.fate[id].kind = "TARGET" =>
               /\ engine.fate[id].onScore + engine.fate[id].onMiss <= 1
               /\ engine.fate[id].onBomb = 0
        /\ engine.fate[id].kind = "BOMB" =>
               /\ engine.fate[id].onBomb <= 1
               /\ engine.fate[id].onMiss = 0
               /\ engine.fate[id].onScore = 0

\* one target was slashed and one fell out while active, each with its single callback;
\* a bomb fell out with none; frames and slash samples have followed the slash
C35_Witness ==
    /\ \E t \in Created :
           /\ engine.fate[t].kind = "TARGET" /\ engine.fate[t].onScore = 1
           /\ engine.fate[t].onMiss = 0 /\ t \in Ids(engine.entities)
    /\ \E t \in Created :
           /\ engine.fate[t].kind = "TARGET" /\ engine.fate[t].onMiss = 1
           /\ engine.fate[t].onScore = 0 /\ engine.fate[t].culled
    /\ \E b \in Created :
           /\ engine.fate[b].kind = "BOMB" /\ engine.fate[b].culled
           /\ engine.fate[b].onBomb = 0

\* C36: whatever handleBomb, handleScore, handleMiss and handleRestart calls have been
\* made and rendered, lives is in 0..3, gameOver is true exactly when lives is 0, and
\* isPlaying is false while gameOver is true
C36_LivesInRange ==
    /\ gameConfig.lives \in 0..InitialLives
    /\ gameConfig.gameOver <=> gameConfig.lives = 0
    /\ gameConfig.gameOver => ~gameConfig.isPlaying

\* the game is over and a fourth handleBomb update, issued through the closure of the
\* mount render, has run on it
C36_Witness ==
    /\ gameConfig.gameOver /\ ~gameConfig.isPlaying
    /\ BombsApplied > InitialLives
    /\ queue = <<>> /\ ~effectPending

\* the score after the queued handleScore updates: 3 more for each of more than 20
\* points, 1 more for each other, and 404 where that would be passed
RECURSIVE ScoreAfter(_, _)
ScoreAfter(score, q) ==
    IF q = <<>> THEN score
    ELSE LET raised == IF Head(q).op # "score" THEN score
                       ELSE IF Head(q).arg > 20 THEN score + 3 ELSE score + 1
         IN  ScoreAfter(IF raised > 404 THEN 404 ELSE raised, Tail(q))

\* C37: the score is never above 404; when React runs queued handleScore updates each
\* raises it by 3 (more than 20 points) or by 1, up to 404, and none lowers it; the
\* steps that queue an update or leave one queued do not change it
C37_ScoreBounds ==
    /\ [](gameConfig.score \in 0..404)
    /\ [][RunsUpdates =>
            /\ gameConfig'.score = ScoreAfter(gameConfig.score, queue)
            /\ gameConfig'.score >= gameConfig.score]_vars
    /\ [][(gameId' = gameId /\ ~RunsUpdates /\ queue' # <<>>) =>
            gameConfig'.score = gameConfig.score]_vars

\* a glass target slashed at 402 and a second one at 404: the score stands at 404 with
\* nothing queued
C37_Witness ==
    /\ gameConfig.score = 404
    /\ queue = <<>>
    /\ Cardinality({t \in Created : engine.fate[t].onScore = 1 /\ EntityOf(t).glass}) = 2

\* C38: every live particle, whichever emitter made it, has 0 < life <= maxLife, so its
\* fade fraction life / maxLife is in (0, 1]
C38_FadeFraction ==
    \A i \in 1..Len(engine.particles) :
        /\ engine.particles[i].life > 0
        /\ engine.particles[i].life <= engine.particles[i].maxLife

\* nothing more is emitted and no slash sample arrives: the slashing has stopped, the
\* spawner is halted (the game is paused or over) and no bomb burns
Quiet ==
    /\ engine.frames > SlashUntil
    /\ ~configRef.isPlaying \/ configRef.gameOver
    /\ ~gameConfig.isPlaying \/ gameConfig.gameOver
    /\ LiveBombs(engine) = {}

\* C39: every particle and trail node in the engine has life left; a tick takes
\* life from each and leaves the trail mesh visible exactly when two nodes or more
\* remain; and once nothing more is emitted and no sample arrives, the frame loop
\* empties engine.particles and engine.trailNodes and the trail mesh is hidden
C39_EffectsDrain ==
    /\ [](/\ \A i \in 1..Len(engine.particles) : engine.particles[i].life > 0
          /\ \A i \in 1..Len(engine.trailNodes) : engine.trailNodes[i] > 0)
    /\ [][IsTick =>
            /\ engine'.trailVisible = (Len(engine'.trailNodes) >= 2)
            /\ Quiet =>
                   /\ Len(engine'.particles) <= Len(engine.particles)
                   /\ Len(engine'.trailNodes) <= Len(engine.trailNodes)
                   /\ \A i \in 1..Len(engine'.particles) :
                          \E j \in 1..Len(engine.particles) :
                              /\ engine'.particles[i].life < engine.particles[j].life
                              /\ engine'.particles[i].maxLife = engine.particles[j].maxLife
                   /\ \A i \in 1..Len(engine'.trailNodes) :
                          \E j \in 1..Len(engine.trailNodes) :
                              engine'.trailNodes[i] < engine.trailNodes[j]]_vars
    /\ Quiet ~> (/\ engine.particles = <<>>
                 /\ engine.trailNodes = <<>>
                 /\ ~engine.trailVisible)

\* a bomb slashed in the last frames of the slashing has exploded, the game was paused,
\* and the frames since have emptied the particles and the trail
C39_Witness ==
    /\ Quiet
    /\ \E b \in Created : engine.fate[b].kind = "BOMB" /\ engine.fate[b].shatters = 1
    /\ engine.particles = <<>> /\ engine.trailNodes = <<>> /\ ~engine.trailVisible
    /\ engine.frames < DrainFrames

====
